---- MODULE Spec2Model ----
(***************************************************************************)
(* ReconX (src/reconx.py): the command runner run(), the thread-pool       *)
(* engine task()/run_parallel(), the nine-stage pipeline recon(), the      *)
(* report builder report() and the entry point.                            *)
(*                                                                         *)
(* File contents and file names are real strings: a tool's stdout is a     *)
(* string of newline-terminated lines, `sort -u` splits, orders and joins  *)
(* the bytes, sorted(os.listdir()) orders names by code point, and the     *)
(* reports are built by string concatenation.                              *)
(***************************************************************************)
EXTENDS Integers, Sequences, FiniteSets, TLC

----------------------------------------------------------------------------
(* Bounds of the model. *)

\* what the external commands of one run may do other than exit 0 with no
\* output: lines emitted plus commands that exit non-zero with empty stdout
MaxDeviations == 1
\* bytes of report.txt already flushed to disk when report() reads it back
MaxFlush == 1
\* run_parallel under test: size of the task list and of the worker pool
MaxTasks == 3
MaxWorkers == 3
\* calls of report() in a row (report harness)
MaxReports == 2
\* check_tools under test: entries of tools.yaml
MaxDeps == 1
MaxTools == 2

(* Program constants. *)
DefaultWorkers == 4
\* "[10/10] Report Generation": the report comes after the nine stages
ReportStage == 10

----------------------------------------------------------------------------
(* Strings: code points, comparison, lines. *)

\* the characters that occur in names and contents, in code-point order
Alphabet == "\n.0123456789abcdefghijklmnopqrstuvwxyz"

Ord(c) == CHOOSE i \in 1..Len(Alphabet) : SubSeq(Alphabet, i, i) = c

Min(a, b) == IF a < b THEN a ELSE b

\* the element of a singleton.  Only({F(v) : v \in {e}}) is F(e) with e
\* evaluated once, however often F uses it
Only(S) == CHOOSE r \in S : TRUE

RECURSIVE StrLessFrom(_, _, _)
StrLessFrom(s, t, i) ==
  IF i > Len(t) THEN FALSE
  ELSE IF i > Len(s) THEN TRUE
  ELSE LET a == Ord(SubSeq(s, i, i))
           b == Ord(SubSeq(t, i, i))
       IN IF a # b THEN a < b ELSE StrLessFrom(s, t, i + 1)

\* s < t as Python and sort(1) in the C locale compare strings
StrLess(s, t) == StrLessFrom(s, t, 1)

RECURSIVE Insert(_, _)
Insert(x, sorted) ==
  CHOOSE r \in {IF q = <<>> THEN <<y>>
                ELSE IF StrLess(y, Head(q)) THEN <<y>> \o q
                ELSE <<Head(q)>> \o Insert(y, Tail(q)) : y \in {x}, q \in {sorted}} : TRUE

RECURSIVE SortSet(_)
SortSet(S) ==
  CHOOSE r \in {IF T = {} THEN <<>>
                ELSE CHOOSE q \in {Insert(x, SortSet(T \ {x})) :
                                     x \in {CHOOSE y \in T : TRUE}} : TRUE
                : T \in {S}} : TRUE

HasPrefix(s, p) == Len(s) >= Len(p) /\ SubSeq(s, 1, Len(p)) = p

HasSuffix(s, p) ==
  Len(s) >= Len(p) /\ SubSeq(s, Len(s) - Len(p) + 1, Len(s)) = p

\* the lines of a text, without their newlines (a last line may lack one)
RECURSIVE SplitFrom(_, _, _)
SplitFrom(s, start, i) ==
  IF i > Len(s)
  THEN IF start > Len(s) THEN <<>> ELSE <<SubSeq(s, start, Len(s))>>
  ELSE IF SubSeq(s, i, i) = "\n"
       THEN <<SubSeq(s, start, i - 1)>> \o SplitFrom(s, i + 1, i + 1)
       ELSE SplitFrom(s, start, i + 1)

SplitLines(s) == Only({SplitFrom(t, 1, 1) : t \in {s}})

RECURSIVE JoinLines(_)
JoinLines(ls) ==
  IF ls = <<>> THEN "" ELSE Head(ls) \o "\n" \o JoinLines(Tail(ls))

Range(f) == {f[i] : i \in DOMAIN f}

\* sort -u: the distinct lines, ordered, each newline-terminated
SortU(text) == Only({JoinLines(ls) : ls \in {SortSet(Range(SplitLines(text)))}})


----------------------------------------------------------------------------
(* The artifact store: the files of OUTPUT, by name. *)

NoFile == ""

EmptyStore == [n \in {} |-> ""]

\* (faulty variant: the file is opened with mode "a")
PutAppending(st, name, text) ==
  [n \in (DOMAIN st) \cup {name} |->
     IF n = name THEN (IF n \in DOMAIN st THEN st[n] ELSE "") \o text ELSE st[n]]

\* open(name, "w").write(text)
Put(st, name, text) ==
  [n \in (DOMAIN st) \cup {name} |-> IF n = name THEN text ELSE st[n]]

\* the shell's expansion of OUTPUT/<prefix>*.txt
Glob(st, prefix) ==
  {n \in DOMAIN st : HasPrefix(n, prefix) /\ HasSuffix(n, ".txt")}

RECURSIVE Cat(_, _)
Cat(st, files) ==
  IF files = <<>> THEN "" ELSE st[Head(files)] \o Cat(st, Tail(files))

\* cat OUTPUT/<prefix>*.txt | sort -u
MergeOut(st, prefix) ==
  Only({SortU(Cat(st, files)) : files \in {SortSet(Glob(st, prefix))}})

----------------------------------------------------------------------------
(* Commands, tasks and the steps of recon(). *)

Tool(name, reads) ==
  [kind |-> "tool", name |-> name, reads |-> reads, glob |-> "", oT |-> NoFile]

ToolOT(name, reads, file) ==
  [kind |-> "tool", name |-> name, reads |-> reads, glob |-> "", oT |-> file]

Merge(prefix) ==
  [kind |-> "merge", name |-> "cat " \o prefix, reads |-> {}, glob |-> prefix,
   oT |-> NoFile]

GitClone ==
  [kind |-> "clone", name |-> "git clone", reads |-> {}, glob |-> "",
   oT |-> NoFile]

\* printf <text>: a command whose output is fixed by its command line
Printf(text) ==
  [kind |-> "printf", name |-> "printf " \o text, reads |-> {}, glob |-> "",
   oT |-> NoFile]

NoCmd == [kind |-> "none", name |-> "", reads |-> {}, glob |-> "", oT |-> NoFile]

Task(name, cmd, outfile) == [name |-> name, cmd |-> cmd, outfile |-> outfile]

PoolStep(stage, tasks, w) ==
  [kind |-> "pool", stage |-> stage, tasks |-> tasks, cmd |-> NoCmd,
   outfile |-> NoFile, workers |-> w]

RunStep(stage, cmd, outfile) ==
  [kind |-> "run", stage |-> stage, tasks |-> <<>>, cmd |-> cmd,
   outfile |-> outfile, workers |-> 0]

CloneStep(stage) ==
  [kind |-> "clone", stage |-> stage, tasks |-> <<>>, cmd |-> GitClone,
   outfile |-> NoFile, workers |-> 0]

sub_tasks ==
  << Task("subfinder", Tool("subfinder", {}), "sub1.txt"),
     Task("assetfinder", Tool("assetfinder", {}), "sub2.txt"),
     Task("amass", Tool("amass", {}), "sub3.txt") >>

\* (faulty variant: katana is given the outfile of waybackurls)
url_tasks_clash ==
  << Task("gau", Tool("gau", {"resolved.txt"}), "urls1.txt"),
     Task("waybackurls", Tool("waybackurls", {"resolved.txt"}), "urls2.txt"),
     Task("katana", Tool("katana", {"resolved.txt"}), "urls2.txt") >>

url_tasks ==
  << Task("gau", Tool("gau", {"resolved.txt"}), "urls1.txt"),
     Task("waybackurls", Tool("waybackurls", {"resolved.txt"}), "urls2.txt"),
     Task("katana", Tool("katana", {"resolved.txt"}), "urls3.txt") >>

js_tasks == << Task("subjs", Tool("subjs", {"alive.txt"}), "js.txt") >>

param_tasks ==
  << Task("paramspider", Tool("paramspider", {"resolved.txt"}), "params1.txt"),
     Task("arjun", ToolOT("arjun", {"alive.txt"}, "params2.txt"), NoFile) >>

\* recon(), after os.makedirs: the calls it makes, in order, with their stage
Pipeline ==
  << PoolStep(1, sub_tasks, DefaultWorkers),
     RunStep(1, Merge("sub"), "subdomains.txt"),
     RunStep(2, Tool("dnsx", {"subdomains.txt"}), "resolved.txt"),
     RunStep(3, Tool("httpx", {"resolved.txt"}), "alive.txt"),
     RunStep(4, Tool("naabu", {"resolved.txt"}), "ports.txt"),
     RunStep(5, Tool("whatweb", {"alive.txt"}), "tech.txt"),
     PoolStep(6, url_tasks, DefaultWorkers),
     RunStep(6, Merge("urls"), "urls.txt"),
     PoolStep(7, js_tasks, DefaultWorkers),
     CloneStep(8),
     PoolStep(8, param_tasks, DefaultWorkers),
     RunStep(8, Merge("params"), "params.txt"),
     RunStep(9, Tool("nuclei", {"alive.txt"}), "nuclei.txt") >>


----------------------------------------------------------------------------
(* run(cmd, outfile): what one command invocation does to the store. *)

\* o is what the external command did: its exit status rc and the text out
\* it produced (its stdout, or for a tool told to write a file itself with
\* -oT, that file's content).  wf: open(outfile, "w") raises.
Stdout(st, cmd, o) ==
  IF cmd.kind = "merge" THEN MergeOut(st, cmd.glob)
  ELSE IF cmd.oT # NoFile THEN ""
  ELSE o.out

\* (faulty variant: run() returns early on a non-zero exit status and leaves
\* outfile as it was)
RunEffectUnlessFailed(st, cmd, outfile, o, wf) ==
  LET own == IF cmd.oT # NoFile /\ o.rc = 0 THEN Put(st, cmd.oT, o.out) ELSE st
  IN IF outfile # NoFile /\ ~wf /\ o.rc = 0
     THEN Put(own, outfile, Stdout(st, cmd, o))
     ELSE own

RunEffect(st, cmd, outfile, o, wf) ==
  LET own == IF cmd.oT # NoFile /\ o.rc = 0 THEN Put(st, cmd.oT, o.out) ELSE st
  IN IF outfile # NoFile /\ ~wf THEN Put(own, outfile, Stdout(st, cmd, o))
     ELSE own

----------------------------------------------------------------------------
(* report(): the text report and the HTML report. *)

Header(file) == "\n===== " \o file \o " =====\n"

RECURSIVE Render(_)
Render(secs) ==
  IF secs = <<>> THEN ""
  ELSE Header(Head(secs).name) \o Head(secs).body \o Render(Tail(secs))

\* every file name the model's stores can hold, sorted once
TaskFiles(s) == UNION {{t.outfile, t.cmd.oT} : t \in Range(s.tasks)}

NameOrder ==
  SortSet(({"report.txt", "report.html", "a.txt", "b.txt"}
           \cup {s.outfile : s \in Range(Pipeline)}
           \cup UNION {TaskFiles(s) : s \in Range(Pipeline)}
           \cup {"f" \o SubSeq("123456789", i, i) \o ".txt" : i \in 1..9})
          \ {NoFile})

InStore(st, n) == n \in DOMAIN st

RECURSIVE Reverse(_)
Reverse(q) == IF q = <<>> THEN <<>> ELSE Append(Reverse(Tail(q)), Head(q))

\* (faulty variant: os.listdir(OUTPUT) without sorted(), in some other order)
ListDirUnsorted(st) == Reverse(SelectSeq(NameOrder, LAMBDA n : InStore(st, n)))

\* sorted(os.listdir(OUTPUT))
ListDir(st) == SelectSeq(NameOrder, LAMBDA n : InStore(st, n))

\* The loop of the text report over files, the sections written before it
\* being done.  report.txt is open for writing while the loop reads it:
\* the read sees the k bytes the buffered writer has flushed so far.
RECURSIVE TextSections(_, _, _, _)
TextSections(files, st, done, k) ==
  IF files = <<>> THEN done
  ELSE LET f == Head(files)
           written == Render(done) \o Header(f)
           body == IF f = "report.txt"
                   THEN SubSeq(written, 1, Min(k, Len(written)))
                   ELSE st[f]
       IN TextSections(Tail(files), st,
                       Append(done, [name |-> f, body |-> body]), k)

HtmlHead ==
  "\n    <html>\n    <head>\n        <title>ReconX Report</title>\n"
  \o "        <style>\n"
  \o "            body { font-family: monospace; background: #0f172a; color: #e5e7eb; }\n"
  \o "            h1, h2 { color: #38bdf8; }\n"
  \o "            pre { background: #020617; padding: 10px; overflow-x: auto; }\n"
  \o "        </style>\n    </head>\n    <body>\n    <h1>ReconX Report</h1>\n    "

HtmlTail == "\n    </body>\n    </html>\n    "

RECURSIVE HtmlItems(_, _)
HtmlItems(files, st) ==
  IF files = <<>> THEN ""
  ELSE "\n      <h2>" \o Head(files) \o "</h2>\n      <pre>" \o st[Head(files)]
       \o "</pre>\n    " \o HtmlItems(Tail(files), st)

\* html.render(files=files, content=content)
HtmlRender(st) == HtmlHead \o HtmlItems(ListDir(st), st) \o HtmlTail


\* report.txt is opened for writing (created or truncated), then listed,
\* then written
Truncated(st) == Put(st, "report.txt", "")

ReportSections(st, k) == TextSections(ListDir(Truncated(st)), Truncated(st), <<>>, k)

ReportTxtStore(st, k) == Put(st, "report.txt", Render(ReportSections(st, k)))

\* the read of the j-th listed file raises: the with block closes report.txt,
\* which holds what was written so far
ReportTxtPartial(st, k, j) ==
  LET files == ListDir(Truncated(st))
      secs == TextSections(SubSeq(files, 1, j - 1), Truncated(st), <<>>, k)
  IN Put(st, "report.txt", Render(secs) \o Header(files[j]))

\* (faulty variant: the artifacts are removed once the HTML report embeds
\* them)
ReportHtmlStoreOnly(st) ==
  [n \in {"report.txt", "report.html"} |->
     IF n = "report.html" THEN HtmlRender(st) ELSE st[n]]

ReportHtmlStore(st) == Put(st, "report.html", HtmlRender(st))

----------------------------------------------------------------------------
(* The state. *)

VARIABLES
  entry,        \* the function under execution: "main", or one taken on its own
  prog,         \* the steps the main thread executes (recon's, or one pool call)
  pc,           \* where the main thread is
  ip,           \* index in prog of the current step
  store,        \* the files of OUTPUT: name -> content
  paramSpider,  \* os.path.exists("ParamSpider")
  fut,          \* the futures of the executor: <<step, index>> -> state
  yielded,      \* futures as_completed has handed to the loop
  results,      \* run_parallel's local list
  exc,          \* an exception is leaving the with block of run_parallel
  ret,          \* the value the entry function returned to its caller
  error,        \* the exception that reached the caller of the entry function
  sections,     \* the sections report() wrote into report.txt, in order
  firstReport,  \* <<report.txt, report.html>> as the first report() left them
  reports,      \* completed calls of report()
  emitted,      \* lines emitted by the tools so far
  failed,       \* commands that exited non-zero with empty stdout
  rdFault,      \* a command could not read an artifact it was given
  config,       \* tools.yaml as loaded: the dependencies, then the tools
  calls         \* the subprocess.call's check_tools() has made, in order

vars ==
  << entry, prog, pc, ip, store, paramSpider, fut, yielded, results, exc, ret,
     error, sections, firstReport, reports, emitted, failed, rdFault, config,
     calls >>

Lines == {"a", "b"}

RECURSIVE Outs(_)
Outs(k) ==
  IF k = 0 THEN {""}
  ELSE {""} \cup {l \o "\n" \o t : l \in Lines, t \in Outs(k - 1)}

\* values of round(time.time() - start, 2)
Durations == {0, 1}

\* how much of MaxDeviations the run has used
Deviations == emitted + Cardinality(failed)

\* What the external command may do.  A tool's output is opaque; merges are
\* coreutils and deterministic; paramspider.py cannot start when the clone of
\* ParamSpider is missing.
Outcomes(cmd) ==
  IF cmd.kind = "merge" THEN {[rc |-> 0, out |-> "", rd |-> FALSE]}
  ELSE IF cmd.kind = "printf"
       THEN {[rc |-> 0, out |-> SubSeq(cmd.name, 8, Len(cmd.name)), rd |-> FALSE]}
  ELSE IF cmd.name = "paramspider" /\ ~paramSpider
       THEN {[rc |-> 1, out |-> "", rd |-> FALSE]}
  ELSE {o \in [rc : {0, 1},
               out : IF cmd.kind = "clone" \/ Deviations >= MaxDeviations
                     THEN {""} ELSE Outs(MaxDeviations - Deviations),
               rd : BOOLEAN] :
          /\ o.rd => (o.rc = 1 /\ o.out = "" /\ cmd.reads # {} /\ ~rdFault)
          /\ (cmd.oT # NoFile /\ o.rc = 1) => o.out = ""
          /\ (o.rc = 1 /\ o.out = "") => Deviations < MaxDeviations}

\* the bookkeeping of the model's bounds and of what went wrong
Account(cmd, o) ==
  /\ emitted' = emitted + Len(SplitLines(o.out))
  /\ failed' = IF o.rc # 0 /\ o.out = "" THEN failed \cup {cmd.name} ELSE failed
  /\ rdFault' = (rdFault \/ o.rd)
  /\ paramSpider' = (paramSpider \/ (cmd.kind = "clone" /\ o.rc = 0))

----------------------------------------------------------------------------
(* Initial states. *)

\* A store left by an earlier complete run, in which subfinder, gau and arjun
\* found the line "c" and the other tools nothing.
OldOutcome(cmd) ==
  [rc |-> 0, out |-> IF cmd.name \in {"subfinder", "gau", "arjun"} THEN "c\n" ELSE "",
   rd |-> FALSE]

RECURSIVE SeqTasks(_, _)
SeqTasks(st, tasks) ==
  IF tasks = <<>> THEN st
  ELSE SeqTasks(RunEffect(st, Head(tasks).cmd, Head(tasks).outfile,
                          OldOutcome(Head(tasks).cmd), FALSE),
                Tail(tasks))

RECURSIVE SeqSteps(_, _)
SeqSteps(st, steps) ==
  IF steps = <<>> THEN st
  ELSE LET s == Head(steps)
           st1 == IF s.kind = "pool" THEN SeqTasks(st, s.tasks)
                  ELSE IF s.kind = "run"
                       THEN RunEffect(st, s.cmd, s.outfile, OldOutcome(s.cmd), FALSE)
                       ELSE st
       IN SeqSteps(st1, Tail(steps))

PrevStore == ReportHtmlStore(ReportTxtStore(SeqSteps(EmptyStore, Pipeline), 0))

InitCommon ==
  /\ ip = 1
  /\ fut = <<>>
  /\ yielded = {}
  /\ results = <<>>
  /\ exc = FALSE
  /\ ret = <<>>
  /\ error = "none"
  /\ sections = <<>>
  /\ firstReport = <<>>
  /\ reports = 0
  /\ emitted = 0
  /\ failed = {}
  /\ rdFault = FALSE
  /\ calls = <<>>

\* tools.yaml is not among the sources.  The whole run is taken with one
\* declared tool; check_tools() on its own with every list of entries up to
\* MaxDeps dependencies and MaxTools tools.
ToolsYaml == << [kind |-> "tool", name |-> "tool1"] >>

\* python3 reconx.py, in a fresh checkout or after an earlier run
Init ==
  /\ entry = "main"
  /\ prog = Pipeline
  /\ config = ToolsYaml
  /\ pc = "check_tools"
  /\ \E old \in BOOLEAN :
       /\ store = IF old THEN PrevStore ELSE EmptyStore
       /\ paramSpider = old
  /\ InitCommon


----------------------------------------------------------------------------
(* The main thread between steps. *)

Step == prog[ip]

\* (faulty variant: the step after the next one is taken)
AdvanceSkipping ==
  /\ ip' = ip + 2
  /\ pc' = IF ip + 1 < Len(prog) THEN "call"
           ELSE IF entry = "main" THEN "report_txt" ELSE "returned"

\* (faulty variant: the step that returned is called again)
AdvanceRetrying ==
  /\ ip' = ip
  /\ pc' = "call"

\* where the main thread goes when step ip has returned
Advance ==
  /\ ip' = ip + 1
  /\ pc' = IF ip < Len(prog) THEN "call"
           ELSE IF entry = "main" THEN "report_txt" ELSE "returned"

AtCall(kind) == pc = "call" /\ ip <= Len(prog) /\ Step.kind = kind

\* check_tools() begins: tools.yaml is opened and loaded, or that raises
CheckTools ==
  /\ pc = "check_tools"
  /\ \/ pc' = "check" /\ error' = error
     \/ pc' = "raised" /\ error' = "config"
  /\ UNCHANGED << entry, prog, ip, store, paramSpider, fut, yielded, results,
                  exc, ret, sections, firstReport, reports, emitted, failed,
                  rdFault, config, calls >>

\* the entries whose check has been called
Checked == Len(SelectSeq(calls, LAMBDA c : c.call = "check"))

\* (faulty variant: the install command is run whatever the check returned)
NeedsInstallAlways(rc) == TRUE

\* if subprocess.call(check, shell=True) != 0
NeedsInstall(rc) == rc # 0

\* one turn of the loops over the dependencies and the tools, first half:
\* subprocess.call of the entry's check command returns rc
CheckEntry ==
  /\ pc = "check"
  /\ Checked < Len(config)
  /\ \E rc \in {0, 1} :
       /\ calls' = Append(calls, [name |-> config[Checked + 1].name,
                                  call |-> "check", rc |-> rc])
       /\ pc' = IF NeedsInstall(rc) THEN "install" ELSE "check"
  /\ UNCHANGED << entry, prog, ip, store, paramSpider, fut, yielded, results,
                  exc, ret, error, sections, firstReport, reports, emitted,
                  failed, rdFault, config >>

\* second half: subprocess.call of the entry's install command; what it
\* returns is dropped
InstallEntry ==
  /\ pc = "install"
  /\ \E rc \in {0, 1} :
       calls' = Append(calls, [name |-> config[Checked].name,
                               call |-> "install", rc |-> rc])
  /\ pc' = "check"
  /\ UNCHANGED << entry, prog, ip, store, paramSpider, fut, yielded, results,
                  exc, ret, error, sections, firstReport, reports, emitted,
                  failed, rdFault, config >>

\* both loops are over: check_tools() returns, and __main__ calls recon()
CheckToolsReturn ==
  /\ pc = "check"
  /\ Checked = Len(config)
  /\ pc' = IF entry = "main" THEN "makedirs" ELSE "returned"
  /\ UNCHANGED << entry, prog, ip, store, paramSpider, fut, yielded, results,
                  exc, ret, error, sections, firstReport, reports, emitted,
                  failed, rdFault, config, calls >>

\* os.makedirs(OUTPUT, exist_ok=True)
Makedirs ==
  /\ pc = "makedirs"
  /\ \/ pc' = "call" /\ error' = error
     \/ pc' = "raised" /\ error' = "mkdir"
  /\ UNCHANGED << entry, prog, ip, store, paramSpider, fut, yielded, results,
                  exc, ret, sections, firstReport, reports, emitted, failed,
                  rdFault, config, calls >>

----------------------------------------------------------------------------
(* run_parallel(tasks, workers) and the worker threads. *)

Batch(b) == {id \in DOMAIN fut : id[1] = b}

TaskOf(id) == prog[id[1]].tasks[id[2]]

\* (faulty variant: a future counts as done as soon as a worker has taken it)
FinishedStarted(id) == fut[id].st # "queued"

\* future.done(), which as_completed and shutdown(wait=True) wait for
Finished(id) == fut[id].st \in {"done", "raised"}

\* (faulty variant: the loop never calls future.result(), so a task's
\* exception is dropped)
ReraisedNever(f) == FALSE

\* future.result() raises the exception of the task instead of returning
Reraised(f) == f.st = "raised"

Running(b) == {id \in Batch(b) : fut[id].st = "running"}

\* (faulty variant: one thread per work item, whatever max_workers says)
CanStartUnbounded(id) ==
  /\ fut[id].st = "queued"
  /\ \A other \in Batch(id[1]) : fut[other].st = "queued" => id[2] <= other[2]

\* a worker takes the next work item of the queue when one is free
CanStart(id) ==
  /\ fut[id].st = "queued"
  /\ \A other \in Batch(id[1]) : fut[other].st = "queued" => id[2] <= other[2]
  /\ Cardinality(Running(id[1])) < prog[id[1]].workers

\* (faulty variant: the executor is left with shutdown(wait=False))
AllJoinedNoWait(b) == TRUE

\* executor.shutdown(wait=True) has nothing left to wait for
AllJoined(b) == \A id \in Batch(b) : Finished(id)

\* the work items worker threads still hold or have yet to take
Live == {id \in DOMAIN fut : fut[id].st \in {"queued", "running"}}

\* (faulty variant: the loop waits for a first future before it can end)
ExhaustedAfterOne(b) == Batch(b) # {} /\ Batch(b) \subseteq yielded

\* as_completed(futures) has yielded every future of the batch
Exhausted(b) == Batch(b) \subseteq yielded

\* (faulty variant: results = [(name, duration)] in place of the append)
CollectedLast(res, name, duration) == << <<name, duration>> >>

\* results.append((name, duration))
Collected(res, name, duration) == Append(res, <<name, duration>>)

\* ThreadPoolExecutor(max_workers=workers); executor.submit(task, *t) for each t
PoolSubmit ==
  /\ AtCall("pool")
  /\ fut' = [id \in (DOMAIN fut) \cup {<<ip, i>> : i \in 1..Len(Step.tasks)} |->
               IF id[1] = ip THEN [st |-> "queued", dur |-> 0] ELSE fut[id]]
  /\ yielded' = {}
  /\ results' = <<>>
  /\ exc' = FALSE
  /\ pc' = "collect"
  /\ UNCHANGED << entry, prog, ip, store, paramSpider, ret, error, sections,
                  firstReport, reports, emitted, failed, rdFault,
                  config, calls >>

\* a worker thread begins task(name, cmd, outfile): subprocess.run starts
TaskStart(id) ==
  /\ id \in DOMAIN fut
  /\ CanStart(id)
  /\ fut' = [fut EXCEPT ![id].st = "running"]
  /\ UNCHANGED << entry, prog, pc, ip, store, paramSpider, yielded, results,
                  exc, ret, error, sections, firstReport, reports, emitted,
                  failed, rdFault, config, calls >>

\* the command ends; run() writes outfile; task() returns (name, duration),
\* or the write raises and the future holds the exception
TaskFinish(id) ==
  /\ id \in DOMAIN fut
  /\ fut[id].st = "running"
  /\ LET t == TaskOf(id) IN
     \E o \in Outcomes(t.cmd), wf \in BOOLEAN, d \in Durations :
       /\ wf => (t.outfile # NoFile /\ d = 0)
       /\ Account(t.cmd, o)
       /\ store' = RunEffect(store, t.cmd, t.outfile, o, wf)
       /\ fut' = [fut EXCEPT ![id] = IF wf THEN [st |-> "raised", dur |-> 0]
                                     ELSE [st |-> "done", dur |-> d]]
  /\ UNCHANGED << entry, prog, pc, ip, yielded, results, exc, ret, error,
                  sections, firstReport, reports, config, calls >>

\* one turn of `for future in as_completed(futures)`: future.result() returns
\* the task's pair, or re-raises the task's exception out of the with block
Collect(id) ==
  /\ pc = "collect"
  /\ id \in Batch(ip) \ yielded
  /\ Finished(id)
  /\ yielded' = yielded \cup {id}
  /\ IF Reraised(fut[id])
     THEN /\ exc' = TRUE
          /\ pc' = "shutdown"
          /\ UNCHANGED results
     ELSE /\ results' = Collected(results, TaskOf(id).name, fut[id].dur)
          /\ UNCHANGED << pc, exc >>
  /\ UNCHANGED << entry, prog, ip, store, paramSpider, fut, ret, error,
                  sections, firstReport, reports, emitted, failed, rdFault,
                  config, calls >>

\* as_completed is exhausted: the loop ends and control leaves the with block
LoopEnd ==
  /\ pc = "collect"
  /\ Exhausted(ip)
  /\ pc' = "shutdown"
  /\ UNCHANGED << entry, prog, ip, store, paramSpider, fut, yielded, results,
                  exc, ret, error, sections, firstReport, reports, emitted,
                  failed, rdFault, config, calls >>

\* ThreadPoolExecutor.__exit__: shutdown(wait=True); then `return results`,
\* or the pending exception goes on to the caller
Shutdown ==
  /\ pc = "shutdown"
  /\ AllJoined(ip)
  /\ \/ /\ exc
        /\ pc' = "raised"
        /\ error' = "write"
        /\ UNCHANGED << ip, fut, results, ret >>
     \/ /\ ~exc
        /\ ret' = IF entry = "run_parallel" THEN results ELSE ret
        /\ results' = <<>>
        /\ fut' = [id \in Live |-> fut[id]]
        /\ Advance
        /\ UNCHANGED error
  /\ UNCHANGED << entry, prog, store, paramSpider, yielded, exc, sections,
                  firstReport, reports, emitted, failed, rdFault,
                  config, calls >>

----------------------------------------------------------------------------
(* run(cmd, outfile) called by recon() itself. *)

\* subprocess.run starts the command
RunStart ==
  /\ AtCall("run")
  /\ pc' = "cmd"
  /\ UNCHANGED << entry, prog, ip, store, paramSpider, fut, yielded, results,
                  exc, ret, error, sections, firstReport, reports, emitted,
                  failed, rdFault, config, calls >>

\* if not os.path.exists("ParamSpider"): run("git clone ...")
CloneCheck ==
  /\ AtCall("clone")
  /\ IF paramSpider THEN Advance ELSE pc' = "cmd" /\ ip' = ip
  /\ UNCHANGED << entry, prog, store, paramSpider, fut, yielded, results, exc,
                  ret, error, sections, firstReport, reports, emitted, failed,
                  rdFault, config, calls >>

\* the command ends; stdout is written to outfile, or the write raises;
\* run() returns stdout (recon() drops it)
RunFinish ==
  /\ pc = "cmd"
  /\ \E o \in Outcomes(Step.cmd), wf \in BOOLEAN :
       /\ wf => Step.outfile # NoFile
       /\ Account(Step.cmd, o)
       /\ store' = RunEffect(store, Step.cmd, Step.outfile, o, wf)
       /\ IF wf THEN pc' = "raised" /\ error' = "write" /\ ip' = ip /\ ret' = ret
          ELSE /\ Advance
               /\ error' = error
               /\ ret' = IF entry = "run"
                         THEN Append(ret, Stdout(store, Step.cmd, o))
                         ELSE ret
  /\ UNCHANGED << entry, prog, fut, yielded, results, exc, sections,
                  firstReport, reports, config, calls >>


----------------------------------------------------------------------------
(* report() and the end of the run. *)

\* the text report: open report.txt, then header and content of every listed
\* file; the open or one of the reads may raise
ReportTxt ==
  /\ pc = "report_txt"
  /\ \/ /\ pc' = "raised"
        /\ error' = "write"
        /\ UNCHANGED << store, sections >>
     \/ \E k \in 0..MaxFlush :
          /\ store' = ReportTxtStore(store, k)
          /\ sections' = ReportSections(store, k)
          /\ pc' = "report_html"
          /\ error' = error
     \/ \E k \in 0..MaxFlush, j \in 1..Len(ListDir(Truncated(store))) :
          /\ store' = ReportTxtPartial(store, k, j)
          /\ pc' = "raised"
          /\ error' = "read"
          /\ UNCHANGED sections
  /\ UNCHANGED << entry, prog, ip, paramSpider, fut, yielded, results, exc, ret,
                  firstReport, reports, emitted, failed, rdFault,
                  config, calls >>

\* the HTML report: list and read every file, then write report.html;
\* report() returns
ReportHtml ==
  /\ pc = "report_html"
  /\ \/ /\ pc' = "raised"
        /\ error' \in {"read", "write"}
        /\ UNCHANGED << store, firstReport, reports >>
     \/ /\ store' = ReportHtmlStore(store)
        /\ firstReport' = IF reports = 0
                          THEN <<store'["report.txt"], store'["report.html"]>>
                          ELSE firstReport
        /\ reports' = reports + 1
        /\ pc' = IF entry = "main" THEN "finish" ELSE "returned"
        /\ error' = error
  /\ UNCHANGED << entry, prog, ip, paramSpider, fut, yielded, results, exc, ret,
                  sections, emitted, failed, rdFault, config, calls >>

\* print("Recon Complete in ...") and the process exits
Finish ==
  /\ pc = "finish"
  /\ pc' = "done"
  /\ UNCHANGED << entry, prog, ip, store, paramSpider, fut, yielded, results,
                  exc, ret, error, sections, firstReport, reports, emitted,
                  failed, rdFault, config, calls >>

Next ==
  \/ CheckTools
  \/ CheckEntry
  \/ InstallEntry
  \/ CheckToolsReturn
  \/ Makedirs
  \/ PoolSubmit
  \/ \E id \in DOMAIN fut : TaskStart(id)
  \/ \E id \in DOMAIN fut : TaskFinish(id)
  \/ \E id \in DOMAIN fut : Collect(id)
  \/ LoopEnd
  \/ Shutdown
  \/ RunStart
  \/ CloneCheck
  \/ RunFinish
  \/ ReportTxt
  \/ ReportHtml
  \/ Finish

Spec == Init /\ [][Next]_vars

\* the steps of the main thread (every call check_tools() makes ends)
MainStep ==
  \/ CheckTools
  \/ CheckEntry
  \/ InstallEntry
  \/ CheckToolsReturn
  \/ Makedirs
  \/ PoolSubmit
  \/ \E id \in DOMAIN fut : Collect(id)
  \/ LoopEnd
  \/ Shutdown
  \/ RunStart
  \/ CloneCheck
  \/ RunFinish
  \/ ReportTxt
  \/ ReportHtml
  \/ Finish

\* the futures recon() can create
PipelineIds ==
  {id \in (1..Len(Pipeline)) \X (1..3) : id[2] <= Len(Pipeline[id[1]].tasks)}

\* The run when the main thread and the worker threads are scheduled fairly
\* and every command that was started ends (RunFinish, TaskFinish).
SpecFair ==
  /\ Spec
  /\ WF_vars(MainStep)
  /\ \A id \in PipelineIds : WF_vars(TaskStart(id)) /\ WF_vars(TaskFinish(id))

----------------------------------------------------------------------------
(* run_parallel on its own: every task list of up to MaxTasks tasks with    *)
(* unique names, every worker count from 1 to MaxWorkers.                   *)

Digit(i) == SubSeq("123456789", i, i)

\* the i-th task: a tool writing f<i>.txt, the second one with no outfile
PoolTask(i) ==
  Task("t" \o Digit(i), Tool("t" \o Digit(i), {}),
       IF i = 2 THEN NoFile ELSE "f" \o Digit(i) \o ".txt")

InitPool ==
  /\ entry = "run_parallel"
  /\ \E n \in 0..MaxTasks, w \in 1..MaxWorkers :
       prog = << PoolStep(1, [i \in 1..n |-> PoolTask(i)], w) >>
  /\ pc = "call"
  /\ store = EmptyStore
  /\ paramSpider = FALSE
  /\ config = <<>>
  /\ InitCommon

NextPool ==
  \/ PoolSubmit
  \/ \E id \in DOMAIN fut : TaskStart(id)
  \/ \E id \in DOMAIN fut : TaskFinish(id)
  \/ \E id \in DOMAIN fut : Collect(id)
  \/ LoopEnd
  \/ Shutdown

SpecPool == InitPool /\ [][NextPool]_vars

----------------------------------------------------------------------------
(* check_tools() on its own: every tools.yaml of up to MaxDeps system        *)
(* dependencies and up to MaxTools tools, every result of every call.        *)

\* data.get("system_dependencies", []) followed by data["tools"]
Entries(nd, nt) ==
  [i \in 1..(nd + nt) |->
     IF i <= nd THEN [kind |-> "dep", name |-> "dep" \o Digit(i)]
     ELSE [kind |-> "tool", name |-> "tool" \o Digit(i - nd)]]

InitBoot ==
  /\ entry = "check_tools"
  /\ prog = <<>>
  /\ pc = "check_tools"
  /\ store = EmptyStore
  /\ paramSpider = FALSE
  /\ \E nd \in 0..MaxDeps, nt \in 0..MaxTools : config = Entries(nd, nt)
  /\ InitCommon

NextBoot ==
  \/ CheckTools
  \/ CheckEntry
  \/ InstallEntry
  \/ CheckToolsReturn

SpecBoot == InitBoot /\ [][NextBoot]_vars

----------------------------------------------------------------------------
(* run(cmd, outfile) on its own: the same call made twice in a row, on every *)
(* store of two files, for fixed commands, the merge and an opaque tool.     *)

RunCmds == {Printf(""), Printf("a\n"), Merge("sub"), Tool("subfinder", {})}

RunFiles == {"sub1.txt", "subdomains.txt"}

RunStores == UNION {[S -> {"", "a\n", "b\n"}] : S \in SUBSET RunFiles}

InitRun ==
  /\ entry = "run"
  /\ \E c \in RunCmds, f \in RunFiles \cup {NoFile} :
       prog = << RunStep(1, c, f), RunStep(1, c, f) >>
  /\ pc = "call"
  /\ store \in RunStores
  /\ paramSpider = FALSE
  /\ config = <<>>
  /\ InitCommon

NextRun ==
  \/ RunStart
  \/ RunFinish

SpecRun == InitRun /\ [][NextRun]_vars

----------------------------------------------------------------------------
(* report() on its own: every store of up to two artifacts, report() called *)
(* up to MaxReports times in a row.                                         *)

ReportNames == {"a.txt", "b.txt"}

ReportContents == {"", "x", "y"}

ReportStores ==
  UNION {[S -> ReportContents] : S \in SUBSET ReportNames}

InitReport ==
  /\ entry = "report"
  /\ prog = <<>>
  /\ pc = "report_txt"
  /\ store \in ReportStores
  /\ paramSpider = FALSE
  /\ config = <<>>
  /\ InitCommon

\* the caller calls report() again
ReportAgain ==
  /\ pc = "returned"
  /\ entry = "report"
  /\ reports < MaxReports
  /\ pc' = "report_txt"
  /\ UNCHANGED << entry, prog, ip, store, paramSpider, fut, yielded, results,
                  exc, ret, error, sections, firstReport, reports, emitted,
                  failed, rdFault, config, calls >>

NextReport ==
  \/ ReportTxt
  \/ ReportHtml
  \/ ReportAgain

SpecReport == InitReport /\ [][NextReport]_vars


----------------------------------------------------------------------------
(* Properties of check_tools(), checked under SpecBoot. *)

\* the check calls made so far, in order
Checks == SelectSeq(calls, LAMBDA c : c.call = "check")

\* check_tools() is over without having raised
PastBoot == pc \notin {"check_tools", "check", "install"} /\ error # "config"

\* C20: the checks made are those of the declared entries, dependencies
\* first, each once and in order; an install call is the call right after
\* the failed check of the same entry, and every failed check is followed by
\* one (or the install is the call to come); the calls raise nothing,
\* whatever they return; when check_tools() is over every entry has been
\* checked, and no step of recon() is taken before that.
C20_EnsurePresent ==
  /\ Len(Checks) <= Len(config)
  /\ \A i \in 1..Len(Checks) : Checks[i].name = config[i].name
  /\ \A j \in 1..Len(calls) :
       /\ calls[j].call = "install" =>
            /\ j > 1
            /\ calls[j - 1] = [name |-> calls[j].name, call |-> "check", rc |-> 1]
       /\ calls[j].call = "check" =>
            IF calls[j].rc = 0
            THEN pc = "install" => j < Len(calls)
            ELSE IF j = Len(calls) THEN pc = "install"
                 ELSE calls[j + 1].call = "install" /\ calls[j + 1].name = calls[j].name
  /\ error = "config" => calls = <<>>
  /\ entry = "check_tools" => (pc = "raised" => error = "config")
  /\ PastBoot => Len(Checks) = Len(config)
  /\ ~PastBoot => (ip = 1 /\ DOMAIN fut = {} /\ failed = {} /\ emitted = 0)

\* check_tools() has returned: the dependency was missing and its install
\* failed, the first tool was found, the second one was installed
C20_Witness ==
  /\ entry = "check_tools"
  /\ pc = "returned"
  /\ Len(config) = 3
  /\ calls = << [name |-> "dep1", call |-> "check", rc |-> 1],
               [name |-> "dep1", call |-> "install", rc |-> 1],
               [name |-> "tool1", call |-> "check", rc |-> 0],
               [name |-> "tool2", call |-> "check", rc |-> 1],
               [name |-> "tool2", call |-> "install", rc |-> 0] >>

----------------------------------------------------------------------------
(* Properties of run_parallel, checked under SpecPool. *)

Returned == entry = "run_parallel" /\ pc = "returned"

Submitted == prog[1].tasks

\* C1: when run_parallel returns, its result list has exactly one entry per
\* submitted task: as many results as tasks, and every task name exactly once,
\* whatever the order in which the tasks ran and completed.
C1_EachTaskOnce ==
  Returned =>
    /\ Len(ret) = Len(Submitted)
    /\ \A i \in 1..Len(Submitted) :
         Cardinality({j \in 1..Len(ret) : ret[j][1] = Submitted[i].name}) = 1

\* three tasks returned, the one submitted last collected first
C1_Witness ==
  /\ Returned
  /\ Len(Submitted) = 3
  /\ Len(ret) = 3
  /\ ret[1][1] = Submitted[3].name

\* C3: run_parallel is a join point: in the state where it returns, no work
\* item of the batch is queued or running, and every task with an outfile has
\* written it.
C3_JoinBeforeReturn ==
  Returned =>
    /\ Live = {}
    /\ \A i \in 1..Len(Submitted) :
         Submitted[i].outfile # NoFile => Submitted[i].outfile \in DOMAIN store

\* a return after tasks had to wait for the single worker
C3_Witness ==
  /\ Returned
  /\ Len(Submitted) >= 2
  /\ prog[1].workers = 1
  /\ Len(ret) = Len(Submitted)

\* C4: at every moment at most max_workers tasks of a pool are executing
\* (with max_workers = 1, at most one: no two executions overlap).
C4_BoundedConcurrency ==
  \A id \in DOMAIN fut : Cardinality(Running(id[1])) <= prog[id[1]].workers

\* with at least as many workers as tasks, all tasks are running at once
C4_Witness ==
  /\ entry = "run_parallel"
  /\ Len(Submitted) >= 2
  /\ prog[1].workers >= Len(Submitted)
  /\ Cardinality(Running(1)) = Len(Submitted)

\* C17: run_parallel called with an empty task list submits nothing (the
\* executor has no future), never waits (the main thread can take its next
\* step in every state before the return), raises nothing and returns the
\* empty list.
C17_EmptyTaskList ==
  (entry = "run_parallel" /\ Len(Submitted) = 0) =>
    /\ DOMAIN fut = {}
    /\ pc # "raised"
    /\ pc # "returned" => ENABLED (PoolSubmit \/ LoopEnd \/ Shutdown)
    /\ pc = "returned" => ret = <<>>

\* run_parallel has returned from a call with no task
C17_Witness ==
  /\ Returned
  /\ Len(Submitted) = 0
  /\ ret = <<>>
  /\ DOMAIN fut = {}
  /\ store = EmptyStore


----------------------------------------------------------------------------
(* Properties of the whole run, checked under Spec. *)

\* the stage the main thread is in
StageNow == IF ip <= Len(prog) THEN prog[ip].stage ELSE ReportStage

\* the stages that have a command executing
RunningStages ==
  {prog[id[1]].stage : id \in {x \in DOMAIN fut : fut[x].st = "running"}}
  \cup (IF pc = "cmd" THEN {Step.stage} ELSE {})

\* C2: stages never overlap: every task that is queued or running belongs to
\* the stage the main thread is in, and all commands executing at one moment
\* belong to a single stage.
C2_StagesNeverOverlap ==
  /\ \A id \in Live : prog[id[1]].stage = StageNow
  /\ Cardinality(RunningStages) <= 1

\* the three URL tools of stage 6 executing at once
C2_Witness ==
  /\ entry = "main"
  /\ ip = 7
  /\ Cardinality(Running(7)) = 3

LineSet(text) == Range(SplitLines(text))

\* the merge steps of recon(): each follows the pool of its stage
MergeSteps == {m \in 2..Len(prog) : prog[m].cmd.kind = "merge"}

\* the output artifacts the tasks of pool step s produced in this run
Produced(s) ==
  ({t.outfile : t \in Range(s.tasks)}
   \cup {t.cmd.oT : t \in {u \in Range(s.tasks) : u.cmd.name \notin failed}})
  \ {NoFile}

\* C5: after a merge step, the lines of the merged artifact are exactly the
\* lines of the artifacts the tasks of its stage produced in this run, each
\* once; also when the run started on the store of an earlier run.
C5_MergeIsUnionOfTaskOutputs ==
  entry = "main" =>
    \A m \in MergeSteps :
      ip > m =>
        LET merged == store[prog[m].outfile] IN
          /\ LineSet(merged) = UNION {LineSet(store[f]) : f \in Produced(prog[m - 1])}
          /\ Len(SplitLines(merged)) = Cardinality(LineSet(merged))

\* the files stages write: every outfile and every -oT file of recon()
PipelineFiles ==
  ({s.outfile : s \in Range(Pipeline)} \cup UNION {TaskFiles(s) : s \in Range(Pipeline)})
  \ {NoFile}

AfterTextReport == entry = "main" /\ pc \in {"report_html", "finish", "done"}

SectionsOf(n) == {i \in DOMAIN sections : sections[i].name = n}

\* C8: report.txt is its sections, header then body; every artifact of the
\* pipeline stages that is in the store has exactly one section, whose body is
\* the artifact's content unchanged; section names strictly increase.
C8_SectionsTranscribeArtifacts ==
  AfterTextReport =>
    /\ store["report.txt"] = Render(sections)
    /\ \A n \in PipelineFiles \cap DOMAIN store :
         /\ Cardinality(SectionsOf(n)) = 1
         /\ \A i \in SectionsOf(n) : sections[i].body = store[n]
    /\ \A i, j \in DOMAIN sections :
         i < j => StrLess(sections[i].name, sections[j].name)

\* a finished run whose report has all sixteen pipeline artifacts, one of
\* them not empty
C8_Witness ==
  /\ entry = "main"
  /\ pc = "done"
  /\ PipelineFiles \subseteq DOMAIN store
  /\ \E i \in DOMAIN sections :
       sections[i].name \in PipelineFiles /\ sections[i].body # ""

\* the outfiles of the commands that exited non-zero with empty stdout, once
\* the call that ran them has returned
FailedArtifacts ==
  ({prog[m].outfile :
       m \in {k \in 1..Len(prog) :
                k < ip /\ prog[k].kind = "run" /\ prog[k].cmd.name \in failed}}
   \cup UNION {{t.outfile : t \in {u \in Range(prog[m].tasks) : u.cmd.name \in failed}} :
               m \in {k \in 1..Len(prog) : k < ip}})
  \ {NoFile}

\* C9: fail-soft.  A command that exits non-zero with empty stdout raises
\* nothing: when the run has raised, a filesystem operation did it; the task
\* of such a command, once it has ended, yields its result to the loop; the
\* outfile it was given is in the store, empty; and in the text report the
\* section of that outfile is there and empty.
C9_FailSoft ==
  entry = "main" =>
    /\ (failed # {} /\ pc = "raised") => error \in {"mkdir", "write", "read"}
    /\ \A id \in DOMAIN fut :
         (TaskOf(id).cmd.name \in failed /\ fut[id].st = "done") =>
           /\ TaskOf(id).outfile # NoFile =>
                /\ TaskOf(id).outfile \in DOMAIN store
                /\ store[TaskOf(id).outfile] = ""
           /\ (id \in yielded /\ id[1] = ip) =>
                \E j \in DOMAIN results : results[j][1] = TaskOf(id).name
    /\ \A n \in FailedArtifacts : n \in DOMAIN store /\ store[n] = ""
    /\ AfterTextReport =>
         \A n \in FailedArtifacts :
           SectionsOf(n) # {} /\ \A i \in SectionsOf(n) : sections[i].body = ""

\* a run on the store of an earlier run, done, in which subfinder failed:
\* sub1.txt, which held a line, is empty in the store and in the report
C9_Witness ==
  /\ entry = "main"
  /\ pc = "done"
  /\ "subfinder" \in failed
  /\ "c\n" \in Range(store)
  /\ store["sub1.txt"] = ""
  /\ \E i \in DOMAIN sections : sections[i].name = "sub1.txt" /\ sections[i].body = ""

\* a filesystem operation of the program itself raised: os.makedirs, the
\* open/write of an outfile in run(), an open/read/write of report()
PyFsFailed ==
  \/ error \in {"mkdir", "write", "read"}
  \/ \E id \in DOMAIN fut : fut[id].st = "raised"

\* ... or an external command could not read the artifact it was given
AnyFsFailed == PyFsFailed \/ rdFault

ReportFiles(st) == [n \in {"report.txt", "report.html"} \cap DOMAIN st |-> st[n]]

\* after the failure: the main thread stays in the stage it is in, no report
\* file is written, and the run does not complete
AbortedStep ==
  /\ StageNow' = StageNow
  /\ ReportFiles(store') = ReportFiles(store)
  /\ pc' \notin {"report_txt", "report_html", "finish", "done"}

\* C10 as stated: every filesystem failure, a command's failed read of an
\* artifact included, aborts the run.
C10_AnyFsFailureAborts == [][AnyFsFailed => AbortedStep]_vars

\* C10 as it holds: a filesystem failure raised in the program itself aborts
\* the run.
C10_PyFsFailureAborts == [][PyFsFailed => AbortedStep]_vars

\* the write of js.txt raised in the worker; the exception has reached the
\* caller, with stage 7 the last stage entered
C10_Witness ==
  /\ entry = "main"
  /\ pc = "raised"
  /\ error = "write"
  /\ ip = 9
  /\ \E id \in DOMAIN fut : fut[id].st = "raised"

\* the phase of the run: 0 bootstrap (check_tools), 1..9 the stages of
\* recon() (os.makedirs opens stage 1), 10 the report, 11 done; a run that
\* raised stays in the phase it was in
Phase ==
  IF pc \in {"check_tools", "check", "install"} \/ error = "config" THEN 0
  ELSE IF pc = "makedirs" \/ error = "mkdir" THEN 1
  ELSE IF pc = "done" THEN ReportStage + 1
  ELSE StageNow

\* C11: the run is linear: every step stays in its phase or enters the next
\* one (none is skipped or entered again); the report is begun only when the
\* last step of recon() has returned and no task is left, and is completed
\* once, which the run needs to be done.
C11_LinearPhases ==
  [][/\ Phase' \in {Phase, Phase + 1}
     /\ reports' \in {reports, reports + 1}
     /\ reports' <= 1
     /\ pc' = "report_txt" => (ip' = Len(prog) + 1 /\ Live' = {} /\ reports' = 0)
     /\ pc' = "done" => reports' = 1]_vars

\* the run is done: it went through all the phases and reported once
C11_Witness ==
  /\ entry = "main"
  /\ pc = "done"
  /\ Phase = ReportStage + 1
  /\ reports = 1
  /\ ip = Len(Pipeline) + 1

\* the run is done: every step of recon() has returned and both reports are
\* in the store
Done ==
  /\ pc = "done"
  /\ ip = Len(prog) + 1
  /\ Live = {}
  /\ {"report.txt", "report.html"} \subseteq DOMAIN store

\* C12: termination.  With fair scheduling and commands that end, a run in
\* which no filesystem operation fails (nothing is raised) is eventually done,
\* whatever the commands exit with and print.
C12_Terminates == ([](error = "none")) => <>Done

\* a run that is done although a command exited non-zero and another one
\* after it ran
C12_Witness ==
  /\ entry = "main"
  /\ Done
  /\ error = "none"
  /\ "dnsx" \in failed
  /\ reports = 1

\* the commands that are executing: the tasks a worker runs and the command
\* the main thread waits for in run() (index 0 of its step)
Executing ==
  {id \in DOMAIN fut : fut[id].st = "running"}
  \cup (IF pc = "cmd" THEN {<<ip, 0>>} ELSE {})

\* C13: a hung command stalls the run.  Over every step that leaves a command
\* executing, the main thread stays in the stage of that command and neither
\* raises nor reaches the report or the end; and a task stops executing only
\* by ending (there is no timeout and no cancellation).  So while a command
\* never ends, its stage never completes and nothing after it starts.
C13_HungCommandStalls ==
  [][\A c \in Executing :
       IF c \in Executing'
       THEN /\ StageNow' = prog[c[1]].stage
            /\ ip' = c[1]
            /\ pc' \notin {"raised", "report_txt", "report_html", "finish", "done"}
       ELSE c[2] > 0 => (c \in DOMAIN fut' /\ fut'[c].st \in {"done", "raised"})]_vars

\* a task of stage 6 is still executing while the write of another one has
\* raised: the main thread waits in the executor's shutdown, the exception
\* pending
C13_Witness ==
  /\ entry = "main"
  /\ pc = "shutdown"
  /\ exc
  /\ ip = 7
  /\ Executing # {}
  /\ \E id \in Batch(7) : fut[id].st = "raised"

\* the artifacts a task writes (through run() or itself) and reads
Writes(t) == {t.outfile, t.cmd.oT} \ {NoFile}

Reads(t) == t.cmd.reads

\* C15: the tasks of one pool, which may run at the same time, do not
\* conflict: no two of them write the same artifact and none reads an
\* artifact another one writes; so it is for every pair of futures that are
\* queued or running together.
C15_TasksDoNotConflict ==
  /\ \A k \in 1..Len(prog) : \A i, j \in 1..Len(prog[k].tasks) :
       i # j =>
         /\ Writes(prog[k].tasks[i]) \cap Writes(prog[k].tasks[j]) = {}
         /\ Reads(prog[k].tasks[i]) \cap Writes(prog[k].tasks[j]) = {}
  /\ \A c, d \in Live :
       c # d =>
         /\ Writes(TaskOf(c)) \cap Writes(TaskOf(d)) = {}
         /\ Reads(TaskOf(c)) \cap Writes(TaskOf(d)) = {}

\* paramspider and arjun, the tasks of stage 8, executing at once
C15_Witness ==
  /\ entry = "main"
  /\ ip = 11
  /\ Cardinality(Running(11)) = 2
  /\ Writes(TaskOf(<<11, 1>>)) = {"params1.txt"}
  /\ Writes(TaskOf(<<11, 2>>)) = {"params2.txt"}

\* the command of an executing task or run() call
CmdOf(c) == IF c[2] = 0 THEN prog[c[1]].cmd ELSE prog[c[1]].tasks[c[2]].cmd

\* the steps of this run that write artifact f: through run()'s outfile ...
OutfileSteps(f) ==
  {k \in 1..Len(prog) :
     prog[k].outfile = f \/ \E i \in 1..Len(prog[k].tasks) : prog[k].tasks[i].outfile = f}

\* ... or by the tool itself (-oT)
OwnFileSteps(f) ==
  {k \in 1..Len(prog) : \E i \in 1..Len(prog[k].tasks) : prog[k].tasks[i].cmd.oT = f}

\* the artifacts command c of step k is given to read: the files named on a
\* tool's command line; for a merge, the outputs of the tasks of its stage
\* (the files its pattern is meant for)
Inputs(c) ==
  IF CmdOf(c).kind = "merge"
  THEN {f \in PipelineFiles :
          /\ HasPrefix(f, CmdOf(c).glob) /\ HasSuffix(f, ".txt")
          /\ f # prog[c[1]].outfile}
  ELSE CmdOf(c).reads

\* C18: producers precede consumers.  While a command that reads an artifact
\* executes, every step of this run that produces the artifact lies before
\* the command's step, none of its tasks is queued or running, and the file a
\* run() call wrote for it is in the store.
C18_ProducersPrecedeConsumers ==
  entry = "main" =>
    \A c \in Executing : \A f \in Inputs(c) :
      /\ OutfileSteps(f) \cup OwnFileSteps(f) # {}
      /\ \A k \in OutfileSteps(f) \cup OwnFileSteps(f) :
           /\ k < c[1]
           /\ k < ip
           /\ \A id \in Live : id[1] # k
      /\ OutfileSteps(f) # {} => f \in DOMAIN store

\* the merge of stage 1 executing, with the line subfinder found in this run
\* in sub1.txt
C18_Witness ==
  /\ entry = "main"
  /\ pc = "cmd"
  /\ ip = 2
  /\ Inputs(<<2, 0>>) = {"sub1.txt", "sub2.txt", "sub3.txt"}
  /\ store["sub1.txt"] \in {"a\n", "b\n"}

\* the exception of a task is leaving, or has left, run_parallel
PoolRaised == pc = "raised" /\ exc

\* C19: the exception of a task leaves run_parallel only when the batch is
\* over: in the step in which it reaches the caller no task of the batch is
\* queued or running, every future of the batch has ended, and the main thread
\* is still at the call; and from then on the run takes no step: no later
\* step of the pipeline is executed.
C19_RaiseAfterJoin ==
  [][/\ PoolRaised' =>
          /\ Live' = {}
          /\ \A id \in Batch(ip)' : fut'[id].st \in {"done", "raised"}
          /\ \E id \in Batch(ip)' : fut'[id].st = "raised"
          /\ ip' = ip
          /\ prog[ip].kind = "pool"
     /\ ~PoolRaised]_vars

\* the write of urls1.txt raised; the exception has reached recon() after
\* the two other URL tools ended normally
C19_Witness ==
  /\ entry = "main"
  /\ PoolRaised
  /\ ip = 7
  /\ fut[<<7, 1>>].st = "raised"
  /\ fut[<<7, 2>>].st = "done"
  /\ fut[<<7, 3>>].st = "done"
  /\ "urls.txt" \notin DOMAIN store

----------------------------------------------------------------------------
(* Properties of run(), checked under SpecRun. *)

\* the calls of run() that have returned
RunsReturned == IF pc = "raised" THEN 0 ELSE Len(ret)

\* a command whose output is a function of its command line and the store
Deterministic(cmd) == cmd.kind \in {"printf", "merge"}

\* C14: when run(cmd, outfile) has returned, outfile holds exactly the stdout
\* of this invocation (which run returns), whatever it held before; and a
\* deterministic command run a second time returns the same output and
\* leaves the same content as the first time.
C14_RunOverwrites ==
  (entry = "run" /\ pc \in {"call", "returned"} /\ Len(ret) >= 1) =>
    /\ Len(ret) = ip - 1
    /\ prog[1].outfile # NoFile =>
         /\ prog[1].outfile \in DOMAIN store
         /\ store[prog[1].outfile] = ret[Len(ret)]
    /\ prog[1].cmd.kind = "printf" =>
         ret[Len(ret)] = SubSeq(prog[1].cmd.name, 8, Len(prog[1].cmd.name))
    /\ (Len(ret) = 2 /\ Deterministic(prog[1].cmd)) => ret[2] = ret[1]

\* printf 'a\n' run twice on a file that held another line: the file holds
\* the one line
C14_Witness ==
  /\ entry = "run"
  /\ pc = "returned"
  /\ prog[1].cmd = Printf("a\n")
  /\ prog[1].outfile = "sub1.txt"
  /\ ret = << "a\n", "a\n" >>
  /\ store["sub1.txt"] = "a\n"

----------------------------------------------------------------------------
(* Properties of report(), checked under SpecReport. *)

\* C6: report() is idempotent: after a second call in a row, report.txt and
\* report.html are byte for byte what the first call left.
C6_ReportIdempotent ==
  (entry = "report" /\ pc = "returned" /\ reports >= 2) =>
    <<store["report.txt"], store["report.html"]>> = firstReport

RECURSIVE HeaderThenContent(_, _)
HeaderThenContent(names, st) ==
  IF names = <<>> THEN ""
  ELSE "\n===== " \o Head(names) \o " =====\n" \o st[Head(names)]
       \o HeaderThenContent(Tail(names), st)

\* C7: the text report of a store is exactly header-then-content of the
\* artifacts that were in the store when report() was called, in lexicographic
\* order of name, and nothing else; a.txt ("x") and b.txt ("y") give
\* "\n===== a.txt =====\nx\n===== b.txt =====\ny".
C7_TextReportExact ==
  (entry = "report" /\ pc = "report_html" /\ reports = 0) =>
    LET present == (DOMAIN store) \ {"report.txt"} IN
      /\ store["report.txt"] = HeaderThenContent(SortSet(present), store)
      /\ (present = {"a.txt", "b.txt"} /\ store["a.txt"] = "x" /\ store["b.txt"] = "y")
           => store["report.txt"] = "\n===== a.txt =====\nx\n===== b.txt =====\ny"

\* the store without the two reports
Others(st) == [n \in (DOMAIN st) \ {"report.txt", "report.html"} |-> st[n]]

\* C16: report() only writes its two outputs: over every step of report(),
\* the artifacts other than report.txt and report.html are the same, by name
\* and content: none is changed, created or deleted.
C16_ReportFrame ==
  [][(pc \in {"report_txt", "report_html"}) => (Others(store') = Others(store))]_vars

\* report() has returned on a store holding a.txt ("x") and b.txt ("y")
C16_Witness ==
  /\ entry = "report"
  /\ pc = "returned"
  /\ reports >= 1
  /\ Others(store) = [n \in {"a.txt", "b.txt"} |-> IF n = "a.txt" THEN "x" ELSE "y"]
  /\ {"report.txt", "report.html"} \subseteq DOMAIN store

====
